---------------------------- MODULE Spec2Model ----------------------------
(***************************************************************************)
(* A model of wifitracker/tracker.py: the append-only probe-request log    *)
(* and its chunked replay (Tracker), the alias store (aliases.csv) and the *)
(* concurrent vendor lookup (set_vendors).                                 *)
(*                                                                         *)
(* Python values are modelled as follows.                                  *)
(*   - a text (SSID, alias, JSON text) is a sequence of characters, each   *)
(*     character a string; the non-ASCII character U+00E9 is "U+00E9";     *)
(*   - None is the one-element sequence <<"None">> where a text is         *)
(*     expected, and NoneInt where a datetime or a number is expected;     *)
(*   - a datetime is a number of microseconds after a fixed instant;       *)
(*   - a call that raises yields a record whose field raised names the     *)
(*     exception, "None" when the call returns.                            *)
(***************************************************************************)
EXTENDS Integers, Sequences, FiniteSets, TLC

\* Bounds of the model.
MaxLen == 2
MaxDts == 2
chunk_size == 2
MaxDevices == 3
MaxWorkers == 2
MaxCalls == 3

VARIABLES
    requests_file,   \* the lines of <storage_dir>/requests; <<>>: no such file
    appended,        \* history: what each line after the first was written from
    aliases_file,    \* the lines of <storage_dir>/aliases.csv
    call,            \* the last Tracker call and its outcome
    pc,              \* set_vendors: where the calling thread is
    devices,         \* set_vendors: the Device objects passed, in dict order
    queue,           \* set_vendors: the Queue, its maxsize and its items
    unfinished_tasks,\* set_vendors: Queue.unfinished_tasks
    threads,         \* set_vendors: the VendorLookupThreads started
    lookups,         \* history: how often set_vendor ran on each Device
    failed           \* history: the lookups that raised, and in which thread

tracker_vars == <<requests_file, appended, aliases_file, call>>
vendor_vars == <<pc, devices, queue, unfinished_tasks, threads, lookups, failed>>
vars == <<requests_file, appended, aliases_file, call, pc, devices, queue,
          unfinished_tasks, threads, lookups, failed>>

-----------------------------------------------------------------------------
(* Values *)

None == <<"None">>
NoneInt == 0
Eacute == "U+00E9"

Macs == {"m1", "m2"}
Dts == 1..MaxDts
Ssids == {None, <<>>, <<"a">>, <<Eacute>>}
SignalStrengths == {-50}

\* Python truth value of a text or None.
Truthy(x) == x # None /\ x # <<>>

\* None where a MAC or a vendor is expected, and the truth value of a MAC.
NoneStr == "None"
TruthyStr(x) == x # NoneStr /\ x # ""

RECURSIVE Flatten(_)
Flatten(ss) == IF ss = <<>> THEN <<>> ELSE Head(ss) \o Flatten(Tail(ss))

\* [f(s[1]), ..., f(s[n])] concatenated.
FlatMap(f(_), s) == Flatten([i \in 1..Len(s) |-> f(s[i])])

Min(a, b) == IF a < b THEN a ELSE b

-----------------------------------------------------------------------------
(* Record codec: json.dumps / json.loads of the fields, repr, the datetime *)
(* format.                                                                 *)

\* json.dumps of one character of a string (ensure_ascii).
json_dumps_char(c) ==
    CASE c = "\"" -> <<"\\", "\"">>
      [] c = "\\" -> <<"\\", "\\">>
      [] c = Eacute -> <<"\\", "u", "0", "0", "e", "9">>
      [] OTHER -> <<c>>

\* json.dumps of a text or None.
json_dumps(x) ==
    IF x = None THEN <<"n", "u", "l", "l">>
    ELSE <<"\"">> \o FlatMap(json_dumps_char, x) \o <<"\"">>

\* The characters of the body of a JSON string, its escapes undone.
RECURSIVE json_unescape(_)
json_unescape(t) ==
    IF t = <<>> THEN <<>>
    ELSE IF Head(t) = "\\" /\ Len(t) >= 2
         THEN IF t[2] = "u" /\ Len(t) >= 6
              THEN (IF SubSeq(t, 3, 6) = <<"0", "0", "e", "9">>
                    THEN <<Eacute>> ELSE <<"?">>)
                   \o json_unescape(SubSeq(t, 7, Len(t)))
              ELSE <<t[2]>> \o json_unescape(SubSeq(t, 3, Len(t)))
         ELSE <<Head(t)>> \o json_unescape(Tail(t))

\* json.loads of the JSON text of a string or of null.
json_loads(t) ==
    IF t = <<"n", "u", "l", "l">> THEN None
    ELSE json_unescape(SubSeq(t, 2, Len(t) - 1))

\* repr of one character of a unicode string quoted with '.
repr_char(c) ==
    CASE c = "\\" -> <<"\\", "\\">>
      [] c = "'" -> <<"\\", "'">>
      [] c = Eacute -> <<"\\", "x", "e", "9">>
      [] OTHER -> <<c>>

\* repr(u) of a unicode string u: u'...'.
repr(u) == <<"u", "'">> \o FlatMap(repr_char, u) \o <<"'">>

\* datetime.strftime(dts, '%Y-%m-%d %H:%M:%S.%f'): the date and time of the
\* fixed instant, and the microseconds as six digits.
RECURSIVE Digits(_, _)
Digits(n, width) ==
    IF width = 0 THEN <<>> ELSE Append(Digits(n \div 10, width - 1), n % 10)

strftime(dts) == [seconds |-> "2016-01-01 00:00:00", micro |-> Digits(dts, 6)]

RECURSIVE int(_)
int(ds) == IF ds = <<>> THEN 0 ELSE 10 * int(SubSeq(ds, 1, Len(ds) - 1)) + ds[Len(ds)]

\* _strptime(s): the fields of s read back at their fixed positions.
strptime(s) ==
    IF s.seconds = "2016-01-01 00:00:00" /\ Len(s.micro) = 6
    THEN [raised |-> "None", value |-> int(s.micro)]
    ELSE [raised |-> "ValueError", value |-> NoneInt]

-----------------------------------------------------------------------------
(* ProbeRequest and the lines of the log *)

ProbeRequest(source_mac, capture_dts, target_ssid, signal_strength) ==
    [source_mac |-> source_mac, capture_dts |-> capture_dts,
     target_ssid |-> target_ssid, signal_strength |-> signal_strength]

\* json_compact(request): the line of the log that holds the request.
json_compact(request) ==
    [kind |-> "object",
     source_mac |-> request.source_mac,
     capture_dts |-> strftime(request.capture_dts),
     target_ssid |-> json_dumps(request.target_ssid),
     signal_strength |-> request.signal_strength]

\* The empty line that starts the file, and a line json.loads cannot decode.
BlankLine == [kind |-> "blank"]
CorruptLine == [kind |-> "corrupt"]

\* len(line) > 1
LongerThanOne(line) == line.kind # "blank"

\* The ProbeRequest _load_requests builds from one decoded object.
load_request(d) ==
    LET parsed == strptime(d.capture_dts)
        capture_dts == IF parsed.raised = "None" THEN parsed.value ELSE NoneInt
        ssid == json_loads(d.target_ssid)
        target_ssid == IF Truthy(ssid)
                       THEN SubSeq(repr(ssid), 3, Len(repr(ssid)) - 1)
                       ELSE ssid
    IN  ProbeRequest(d.source_mac, capture_dts, target_ssid, d.signal_strength)

\* json.loads('[' + ','.join(lines) + ']') raises: a line is not the text
\* of a JSON object.
json_loads_raises(lines) == \E i \in 1..Len(lines) : lines[i].kind # "object"

\* _load_requests('[' + ','.join(lines) + ']')
load_requests(lines) ==
    IF json_loads_raises(lines)
    THEN [raised |-> "ValueError", requests |-> <<>>]
    ELSE [raised |-> "None",
          requests |-> [i \in 1..Len(lines) |-> load_request(lines[i])]]

\* A _write_request that opens the file with 'w': the write replaces the
\* file.
write_request_truncating(file, request) == <<BlankLine, json_compact(request)>>

\* Tracker._write_request: '\n' + dump appended to the file.
write_request(file, request) ==
    IF file = <<>> THEN <<BlankLine, json_compact(request)>>
    ELSE Append(file, json_compact(request))

-----------------------------------------------------------------------------
(* Device and Station *)

Device(device_mac, last_seen_dts, alias) ==
    [device_mac |-> device_mac, known_ssids |-> <<>>,
     vendor_company |-> "None", vendor_country |-> "None",
     last_seen_dts |-> last_seen_dts, alias |-> alias]

InSeq(x, s) == \E i \in 1..Len(s) : s[i] = x

\* A set_alias that assigns whatever alias the Device has.
set_alias_always(device, alias) == [device EXCEPT !.alias = alias]

\* Device.set_alias
set_alias(device, alias) ==
    IF ~Truthy(device.alias) THEN [device EXCEPT !.alias = alias] ELSE device

\* An add_ssid without its test of the truth value of the SSID.
add_ssid_unchecked(device, ssid) ==
    IF ~InSeq(ssid, device.known_ssids)
    THEN [device EXCEPT !.known_ssids = Append(@, ssid)]
    ELSE device

\* Device.add_ssid
add_ssid(device, ssid) ==
    IF Truthy(ssid) /\ ~InSeq(ssid, device.known_ssids)
    THEN [device EXCEPT !.known_ssids = Append(@, ssid)]
    ELSE device

Station(ssid) == [ssid |-> ssid, associated_devices |-> <<>>]

\* add_device without its test for a MAC already in the list.
add_device_again(station, device_mac) ==
    [station EXCEPT !.associated_devices = Append(@, device_mac)]

\* Station.add_device
add_device(station, device_mac) ==
    IF TruthyStr(device_mac) /\ ~InSeq(device_mac, station.associated_devices)
    THEN [station EXCEPT !.associated_devices = Append(@, device_mac)]
    ELSE station

-----------------------------------------------------------------------------
(* Tracker._read_requests_chunk *)

\* The default load_dts, datetime.now(): a query runs after the captures
\* that the log holds, so that now is later than every capture_dts.
Now == MaxDts + 1

\* list(islice(file, chunk_size)) with the file positioned before line pos.
islice(file, pos) == SubSeq(file, pos, Min(Len(file), pos + chunk_size - 1))

\* The fallback of the reader: the lines decoded one by one, the lines that
\* raise left out.
RECURSIVE decode_line_by_line(_)
decode_line_by_line(lines) ==
    IF lines = <<>> THEN <<>>
    ELSE LET one == load_requests(<<Head(lines)>>)
         IN  (IF one.raised = "None" THEN one.requests ELSE <<>>)
             \o decode_line_by_line(Tail(lines))

\* The requests decoded from one chunk: all of them at once, or one by one.
decode_chunk(chunk) ==
    LET lines == SelectSeq(chunk, LongerThanOne)
        batch == load_requests(lines)
    IN  IF batch.raised = "None" THEN batch.requests
        ELSE decode_line_by_line(lines)

\* The line numbers that the fallback logs for the chunk chunk_no: for
\* the i-th of the lines longer than one character, when it does not
\* decode, chunk_size * (chunk_no - 1) + i.  Nothing is logged when the
\* lines decode all at once.
log_error(chunk, chunk_no) ==
    LET lines == SelectSeq(chunk, LongerThanOne)
        line_no(i) == chunk_size * (chunk_no - 1) + i
    IN  IF ~json_loads_raises(lines) THEN <<>>
        ELSE FlatMap(LAMBDA i : IF json_loads_raises(<<lines[i]>>)
                                THEN <<line_no(i)>> ELSE <<>>,
                     [i \in 1..Len(lines) |-> i])

\* all[0].capture_dts > load_dts
abort_chunk(first, load_dts) == first.capture_dts > load_dts

\* A filter that keeps the requests captured at load_dts.
before_or_at_load_dts(r, load_dts) == r.capture_dts <= load_dts

\* r.capture_dts < load_dts
before_load_dts(r, load_dts) == r.capture_dts < load_dts

\* The loop of the generator from line pos on: the chunks it yields, in
\* order, the line numbers it logs and the exception that ends it, if any.
\* A comparison of None with a datetime raises TypeError.
RECURSIVE read_loop(_, _, _, _, _)
read_loop(file, load_dts, pos, yielded, logged) ==
    LET chunk == islice(file, pos)
        chunk_no == (pos - 1) \div chunk_size + 1
        all == decode_chunk(chunk)
        log == logged \o log_error(chunk, chunk_no)
        Ends(raised) == [raised |-> raised, yielded |-> yielded, logged |-> log]
    IN  IF chunk = <<>>
        THEN [raised |-> "None", yielded |-> yielded, logged |-> logged]
        ELSE IF all = <<>> THEN Ends("IndexError")
        ELSE IF all[1].capture_dts = NoneInt THEN Ends("TypeError")
        ELSE IF abort_chunk(all[1], load_dts) THEN Ends("None")
        ELSE IF \E i \in 1..Len(all) : all[i].capture_dts = NoneInt
             THEN Ends("TypeError")
        ELSE read_loop(file, load_dts, pos + chunk_size,
                       Append(yielded,
                              SelectSeq(all, LAMBDA r : before_load_dts(r, load_dts))),
                       log)

\* _read_requests_chunk(load_dts); opening a file that does not exist raises.
read_requests_chunk(file, load_dts) ==
    IF file = <<>> THEN [raised |-> "IOError", yielded |-> <<>>, logged |-> <<>>]
    ELSE read_loop(file, IF load_dts = NoneInt THEN Now ELSE load_dts, 1, <<>>, <<>>)

-----------------------------------------------------------------------------
(* The queries of Tracker.  Each yields [raised, value, yielded, logged]:   *)
(* the exception that ends the call ("None": it returns), the value        *)
(* returned, the chunks the reader yielded during the call and the line    *)
(* numbers of the decode errors it logged.                                 *)

Outcome(read, value) ==
    [raised |-> read.raised,
     value |-> IF read.raised = "None" THEN value ELSE <<>>,
     yielded |-> read.yielded,
     logged |-> read.logged]

\* The body of the loops of get_devices, over the requests in scan order.
RECURSIVE get_devices_loop(_, _, _)
get_devices_loop(requests, aliases, ds) ==
    IF requests = <<>> THEN ds
    ELSE LET request == Head(requests)
             id == request.source_mac
             capture_dts == request.capture_dts
             ssid == request.target_ssid
             new == Device(id, capture_dts, None)
             d1 == IF id \notin DOMAIN ds
                   THEN ds @@ (id :> IF id \in DOMAIN aliases
                                     THEN set_alias(new, aliases[id])
                                     ELSE new)
                   ELSE ds
             d2 == IF Truthy(ssid)
                   THEN [d1 EXCEPT ![id] = add_ssid(@, ssid)]
                   ELSE d1
             d3 == IF d2[id].last_seen_dts < capture_dts
                   THEN [d2 EXCEPT ![id].last_seen_dts = capture_dts]
                   ELSE d2
         IN  get_devices_loop(Tail(requests), aliases, d3)

get_devices(file, load_dts, aliases) ==
    LET read == read_requests_chunk(file, load_dts)
    IN  Outcome(read, get_devices_loop(Flatten(read.yielded), aliases, <<>>))

RECURSIVE add_ssids(_, _)
add_ssids(device, requests) ==
    IF requests = <<>> THEN device
    ELSE add_ssids(IF Truthy(Head(requests).target_ssid)
                   THEN add_ssid(device, Head(requests).target_ssid)
                   ELSE device,
                   Tail(requests))

\* A get_device that takes last_seen_dts from the first request of the
\* device in a chunk.
RECURSIVE get_device_loop_first(_, _, _)
get_device_loop_first(chunks, device_mac, device) ==
    IF chunks = <<>> THEN device
    ELSE LET device_requests ==
                 SelectSeq(Head(chunks), LAMBDA r : r.source_mac = device_mac)
             d1 == add_ssids(device, device_requests)
             d2 == IF device_requests # <<>>
                   THEN [d1 EXCEPT !.last_seen_dts = device_requests[1].capture_dts]
                   ELSE d1
         IN  get_device_loop_first(Tail(chunks), device_mac, d2)

\* The body of the loop of get_device, over the chunks.
RECURSIVE get_device_loop(_, _, _)
get_device_loop(chunks, device_mac, device) ==
    IF chunks = <<>> THEN device
    ELSE LET device_requests ==
                 SelectSeq(Head(chunks), LAMBDA r : r.source_mac = device_mac)
             d1 == add_ssids(device, device_requests)
             d2 == IF device_requests # <<>>
                   THEN [d1 EXCEPT !.last_seen_dts =
                            device_requests[Len(device_requests)].capture_dts]
                   ELSE d1
         IN  get_device_loop(Tail(chunks), device_mac, d2)

get_device(file, device_mac, load_dts, alias) ==
    LET read == read_requests_chunk(file, load_dts)
    IN  Outcome(read, get_device_loop(read.yielded, device_mac,
                                      Device(device_mac, NoneInt, alias)))

\* The body of the loops of get_stations, over the requests in scan order.
RECURSIVE get_stations_loop(_, _)
get_stations_loop(requests, stations) ==
    IF requests = <<>> THEN stations
    ELSE LET ssid == Head(requests).target_ssid
             device_mac == Head(requests).source_mac
             s1 == IF ssid \notin DOMAIN stations
                   THEN stations @@ (ssid :> Station(ssid))
                   ELSE stations
         IN  get_stations_loop(
                 Tail(requests),
                 IF Truthy(ssid)
                 THEN [s1 EXCEPT ![ssid] = add_device(@, device_mac)]
                 ELSE stations)

get_stations(file, load_dts) ==
    LET read == read_requests_chunk(file, load_dts)
    IN  Outcome(read, get_stations_loop(Flatten(read.yielded), <<>>))

RECURSIVE add_devices(_, _)
add_devices(station, requests) ==
    IF requests = <<>> THEN station
    ELSE add_devices(add_device(station, Head(requests).source_mac),
                     Tail(requests))

\* The body of the loop of get_station, over the chunks.
RECURSIVE get_station_loop(_, _, _)
get_station_loop(chunks, ssid, station) ==
    IF chunks = <<>> THEN station
    ELSE LET station_requests ==
                 SelectSeq(Head(chunks), LAMBDA r : r.target_ssid = ssid)
         IN  get_station_loop(Tail(chunks), ssid,
                              add_devices(station, station_requests))

get_station(file, ssid, load_dts) ==
    LET read == read_requests_chunk(file, load_dts)
    IN  Outcome(read, get_station_loop(read.yielded, ssid, Station(ssid)))

-----------------------------------------------------------------------------
(* The calls on the log *)

\* The arguments the calls are made with.
LoadDts == {NoneInt} \cup Dts
AliasOverlays == {<<>>, [m \in {"m1"} |-> <<"x">>]}
StationArgs == {<<"a">>, <<Eacute>>, <<"\\", "x", "e", "9">>}

\* No call is in progress: the Tracker is used by one thread, and keeps
\* nothing of a call once it has returned.
NoCall == [op |-> "none"]

\* The entries of the history of the log.
Written(request) == [valid |-> TRUE, request |-> request]
Garbage == [valid |-> FALSE]

\* Tracker.add_request(request)
add_request ==
    \E mac \in Macs, dts \in Dts, ssid \in Ssids, rssi \in SignalStrengths :
        /\ call = NoCall
        /\ Len(requests_file) <= MaxLen
        /\ requests_file' =
               write_request(requests_file, ProbeRequest(mac, dts, ssid, rssi))
        /\ appended' = Append(appended, Written(ProbeRequest(mac, dts, ssid, rssi)))
        /\ call' = NoCall
        /\ UNCHANGED <<aliases_file, vendor_vars>>

\* Tracker.add_request(request) on a log of one line more, with requests
\* that differ in source_mac, in a non-empty target_ssid and in
\* capture_dts, the earliest or the latest capture time: the second chunk
\* of such a log holds two requests.
ScanSsids == {<<"a">>, <<"b">>}
ScanDts == {1, MaxDts}

add_request_scan ==
    \E mac \in Macs, dts \in ScanDts, ssid \in ScanSsids, rssi \in SignalStrengths :
        /\ call = NoCall
        /\ Len(requests_file) <= MaxLen + 1
        /\ requests_file' =
               write_request(requests_file, ProbeRequest(mac, dts, ssid, rssi))
        /\ appended' = Append(appended, Written(ProbeRequest(mac, dts, ssid, rssi)))
        /\ call' = NoCall
        /\ UNCHANGED <<aliases_file, vendor_vars>>

\* A write of '\n' + dump that is cut short leaves a line that cannot be
\* decoded: the reader is written to meet such lines.
corrupt_line ==
    /\ call = NoCall
    /\ Len(requests_file) <= MaxLen
    /\ requests_file' = IF requests_file = <<>> THEN <<BlankLine, CorruptLine>>
                        ELSE Append(requests_file, CorruptLine)
    /\ appended' = Append(appended, Garbage)
    /\ call' = NoCall
    /\ UNCHANGED <<aliases_file, vendor_vars>>

\* A line that json.loads decodes but whose capture_dts is not in the format
\* of __jdict__ (a line of another writer, or edited by hand): _strptime
\* raises on it and _load_requests gives the request the capture_dts None.
UnparsedDts == [seconds |-> "garbage", micro |-> <<>>]

unparsed_dts_line ==
    \E mac \in Macs, rssi \in SignalStrengths :
        LET request == ProbeRequest(mac, NoneInt, <<"a">>, rssi)
            line == [json_compact(ProbeRequest(mac, 1, <<"a">>, rssi))
                         EXCEPT !.capture_dts = UnparsedDts]
        IN  /\ call = NoCall
            /\ Len(requests_file) <= MaxLen
            /\ requests_file' = IF requests_file = <<>> THEN <<BlankLine, line>>
                                ELSE Append(requests_file, line)
            /\ appended' = Append(appended, Written(request))
            /\ call' = NoCall
            /\ UNCHANGED <<aliases_file, vendor_vars>>

Returns(op, args, outcome) ==
    /\ call = NoCall
    /\ call' = [op |-> op, args |-> args, raised |-> outcome.raised,
                value |-> outcome.value, yielded |-> outcome.yielded,
                logged |-> outcome.logged]
    /\ UNCHANGED <<requests_file, appended, aliases_file, vendor_vars>>

call_get_devices ==
    \E load_dts \in LoadDts, aliases \in AliasOverlays :
        Returns("get_devices", [load_dts |-> load_dts, aliases |-> aliases],
                get_devices(requests_file, load_dts, aliases))

call_get_device ==
    \E device_mac \in Macs, load_dts \in LoadDts :
        Returns("get_device", [device_mac |-> device_mac, load_dts |-> load_dts],
                get_device(requests_file, device_mac, load_dts, None))

call_get_stations ==
    \E load_dts \in LoadDts :
        Returns("get_stations", [load_dts |-> load_dts],
                get_stations(requests_file, load_dts))

call_get_station ==
    \E ssid \in StationArgs, load_dts \in LoadDts :
        Returns("get_station", [ssid |-> ssid, load_dts |-> load_dts],
                get_station(requests_file, ssid, load_dts))

-----------------------------------------------------------------------------
(* The alias store: aliases.csv, read and written with the csv module,     *)
(* delimiter ';' and quotechar '"'.  A row of the file is a sequence of    *)
(* characters; a MAC is one token that holds neither ';' nor '"'.          *)

Aliases == {<<"x">>, <<"x", ";", "y">>, <<"\"">>}

NoAliasFile == [exists |-> FALSE, rows |-> <<>>]

\* A writer that never quotes a field.
csv_field_unquoted(field) == field

\* A field as csv.writer writes it: quoted when it holds the delimiter or
\* the quotechar, the quotechar doubled.
csv_field(field) ==
    IF InSeq(";", field) \/ InSeq("\"", field)
    THEN <<"\"">>
         \o FlatMap(LAMBDA c : IF c = "\"" THEN <<"\"", "\"">> ELSE <<c>>, field)
         \o <<"\"">>
    ELSE field

\* writer.writerow([d, alias])
csv_writerow(d, alias) == csv_field(<<d>>) \o <<";">> \o csv_field(alias)

\* The fields csv.reader reads from the characters t of a row, with the
\* field read so far and whether the reader is inside quotes.
RECURSIVE csv_read(_, _, _)
csv_read(t, field, quoted) ==
    IF t = <<>> THEN <<field>>
    ELSE IF quoted
         THEN IF Head(t) = "\""
              THEN IF Len(t) >= 2 /\ t[2] = "\""
                   THEN csv_read(SubSeq(t, 3, Len(t)), Append(field, "\""), TRUE)
                   ELSE csv_read(Tail(t), field, FALSE)
              ELSE csv_read(Tail(t), Append(field, Head(t)), TRUE)
         ELSE IF Head(t) = ";"
              THEN <<field>> \o csv_read(Tail(t), <<>>, FALSE)
              ELSE IF Head(t) = "\"" /\ field = <<>>
                   THEN csv_read(Tail(t), field, TRUE)
                   ELSE csv_read(Tail(t), Append(field, Head(t)), FALSE)

\* The loop of get_aliases over the rows: aliases[row[0]] = row[1].
RECURSIVE get_aliases_loop(_, _)
get_aliases_loop(rows, aliases) ==
    IF rows = <<>> THEN [raised |-> "None", value |-> aliases]
    ELSE LET row == csv_read(Head(rows), <<>>, FALSE)
         IN  IF Len(row) < 2 THEN [raised |-> "IndexError", value |-> <<>>]
             ELSE get_aliases_loop(
                      Tail(rows),
                      [m \in DOMAIN aliases \cup {row[1][1]} |->
                          IF m = row[1][1] THEN row[2] ELSE aliases[m]])

\* Tracker.get_aliases
get_aliases(file) ==
    IF ~file.exists THEN [raised |-> "IOError", value |-> <<>>]
    ELSE get_aliases_loop(file.rows, <<>>)

\* The rows written for the dict aliases, its keys iterated in the order ks.
write_aliases(aliases, ks) ==
    [exists |-> TRUE,
     rows |-> [i \in 1..Len(ks) |-> csv_writerow(ks[i], aliases[ks[i]])]]

\* The orders in which a dict with the keys S may iterate them.
KeyOrders(S) ==
    {ks \in [1..Cardinality(S) -> S] : \A m \in S : \E i \in DOMAIN ks : ks[i] = m}

\* set_device_alias without its test for an alias already set.
set_device_alias_unchecked(file, device_mac, alias, force, ks) ==
    LET read == get_aliases(file)
        aliases == [m \in DOMAIN read.value \cup {device_mac} |->
                       IF m = device_mac THEN alias ELSE read.value[m]]
    IN  IF read.raised # "None" THEN [raised |-> read.raised, file |-> file]
        ELSE [raised |-> "None", file |-> write_aliases(aliases, ks)]

\* Tracker.set_device_alias with the dict iterating in the order ks:
\* the exception raised and the file the call leaves.
set_device_alias(file, device_mac, alias, force, ks) ==
    LET read == get_aliases(file)
        aliases == [m \in DOMAIN read.value \cup {device_mac} |->
                       IF m = device_mac THEN alias ELSE read.value[m]]
    IN  IF read.raised # "None" THEN [raised |-> read.raised, file |-> file]
        ELSE IF ~force /\ device_mac \in DOMAIN read.value
             THEN [raised |-> "ValueError", file |-> file]
             ELSE [raised |-> "None", file |-> write_aliases(aliases, ks)]

\* The file aliases.csv is created, empty, by the layer that edits it.
create_aliases_file ==
    /\ call = NoCall
    /\ ~aliases_file.exists
    /\ aliases_file' = [exists |-> TRUE, rows |-> <<>>]
    /\ UNCHANGED <<requests_file, appended, call, vendor_vars>>

call_get_aliases ==
    /\ call = NoCall
    /\ call' = [op |-> "get_aliases", raised |-> get_aliases(aliases_file).raised,
                value |-> get_aliases(aliases_file).value]
    /\ UNCHANGED <<requests_file, appended, aliases_file, vendor_vars>>

call_set_device_alias ==
    \E device_mac \in Macs, alias \in Aliases, force \in BOOLEAN :
        \E ks \in KeyOrders(DOMAIN get_aliases(aliases_file).value \cup {device_mac}) :
            LET done == set_device_alias(aliases_file, device_mac, alias, force, ks)
            IN  /\ call = NoCall
                /\ aliases_file' = done.file
                /\ call' = [op |-> "set_device_alias",
                            args |-> [device_mac |-> device_mac, alias |-> alias,
                                      force |-> force],
                            raised |-> done.raised,
                            before |-> aliases_file]
                /\ UNCHANGED <<requests_file, appended, vendor_vars>>

\* The query returns (or raises) to its caller.
return_to_caller ==
    /\ call # NoCall
    /\ call' = NoCall
    /\ UNCHANGED <<requests_file, appended, aliases_file, vendor_vars>>

-----------------------------------------------------------------------------
(* Calls on one Device or one Station, as the queries build them: call     *)
(* holds the object, what it was before the last call, the argument of     *)
(* that call, the number of calls made, the alias the Device was           *)
(* constructed with and the aliases set_alias was called with.             *)

ObjectSsids == Ssids \cup {<<"b">>}
ObjectAliases == {None, <<>>, <<"x">>, <<"y">>}
ObjectMacs == Macs \cup {NoneStr, ""}

DeviceOps == {"Device", "add_ssid", "set_alias"}
StationOps == {"Station", "add_device"}

ObjectCall(op, object, arg) ==
    /\ call' = [op |-> op, object |-> object, arg |-> arg,
                before |-> IF call = NoCall THEN object ELSE call.object,
                calls |-> IF call = NoCall THEN 0 ELSE call.calls + 1,
                constructed |-> IF call = NoCall THEN arg ELSE call.constructed,
                assigned |-> IF call = NoCall THEN <<>>
                             ELSE IF op = "set_alias" THEN Append(call.assigned, arg)
                             ELSE call.assigned]
    /\ UNCHANGED <<requests_file, appended, aliases_file, vendor_vars>>

\* Device(device_mac, alias=alias)
new_Device ==
    \E device_mac \in Macs, alias \in ObjectAliases :
        /\ call = NoCall
        /\ ObjectCall("Device", Device(device_mac, NoneInt, alias), alias)

\* device.add_ssid(ssid)
call_add_ssid ==
    \E ssid \in ObjectSsids :
        /\ call.op \in DeviceOps
        /\ call.calls < MaxCalls
        /\ ObjectCall("add_ssid", add_ssid(call.object, ssid), ssid)

\* device.set_alias(alias), with an alias read from aliases.csv: a text,
\* empty or not.
call_set_alias ==
    \E alias \in ObjectAliases \ {None} :
        /\ call.op \in DeviceOps
        /\ call.calls < MaxCalls
        /\ ObjectCall("set_alias", set_alias(call.object, alias), alias)

\* Station(ssid)
new_Station ==
    \E ssid \in {<<"a">>, <<Eacute>>} :
        /\ call = NoCall
        /\ ObjectCall("Station", Station(ssid), None)

\* station.add_device(device_mac)
call_add_device ==
    \E device_mac \in ObjectMacs :
        /\ call.op \in StationOps
        /\ call.calls < MaxCalls
        /\ ObjectCall("add_device", add_device(call.object, device_mac), device_mac)

-----------------------------------------------------------------------------
(* set_vendors(devices, workers): the calling thread, the Queue and the    *)
(* VendorLookupThreads.  A step is one call on the Queue or one lookup.    *)

\* Device.set_vendor: the lookup gives a vendor, or raises and is caught.
set_vendor(device, found) ==
    IF found
    THEN [device EXCEPT !.vendor_company = "company", !.vendor_country = "country"]
    ELSE [device EXCEPT !.vendor_company = "None", !.vendor_country = "None"]

\* Where the calling thread goes once every worker is started, and once a
\* device is put: to the next put, or to the join when none is left.
AfterPut(done) == IF done < Len(devices) THEN "put" ELSE "join"

\* set_vendors is called with n devices and a number of workers.
call_set_vendors ==
    \E n \in 0..MaxDevices, workers \in 1..MaxWorkers :
        /\ pc.at = "idle"
        /\ pc' = [at |-> "start", workers |-> workers, put |-> 0]
        /\ devices' = [i \in 1..n |-> Device(i, NoneInt, None)]
        /\ lookups' = [i \in 1..n |-> 0]
        /\ failed' = {}
        /\ queue' = [maxsize |-> workers, items |-> <<>>]
        /\ unfinished_tasks' = 0
        /\ threads' = <<>>
        /\ UNCHANGED tracker_vars

\* thread = VendorLookupThread(queue, session); thread.start()
start_thread ==
    /\ pc.at = "start"
    /\ threads' = Append(threads, [at |-> "get", device |-> 0])
    /\ pc' = IF Len(threads) + 1 < pc.workers THEN pc
             ELSE [pc EXCEPT !.at = AfterPut(0)]
    /\ UNCHANGED <<tracker_vars, devices, queue, unfinished_tasks, lookups, failed>>

\* queue.put(devices[id]): blocks while the Queue is full.
put ==
    /\ pc.at = "put"
    /\ Len(queue.items) < queue.maxsize
    /\ queue' = [queue EXCEPT !.items = Append(@, pc.put + 1)]
    /\ unfinished_tasks' = unfinished_tasks + 1
    /\ pc' = [pc EXCEPT !.put = @ + 1, !.at = AfterPut(pc.put + 1)]
    /\ UNCHANGED <<tracker_vars, devices, threads, lookups, failed>>

\* A join that waits for the Queue to be empty, not for the tasks to be done.
join_on_empty_queue ==
    /\ pc.at = "join"
    /\ queue.items = <<>>
    /\ pc' = [pc EXCEPT !.at = "close"]
    /\ UNCHANGED <<tracker_vars, devices, queue, unfinished_tasks, threads, lookups, failed>>

\* queue.join(): blocks until unfinished_tasks is zero.
join ==
    /\ pc.at = "join"
    /\ unfinished_tasks = 0
    /\ pc' = [pc EXCEPT !.at = "close"]
    /\ UNCHANGED <<tracker_vars, devices, queue, unfinished_tasks, threads, lookups, failed>>

\* session.close(), and set_vendors returns.
close ==
    /\ pc.at = "close"
    /\ pc' = [pc EXCEPT !.at = "returned"]
    /\ UNCHANGED <<tracker_vars, devices, queue, unfinished_tasks, threads, lookups, failed>>

\* A get that leaves the device in the Queue.
get_and_leave(t) ==
    /\ threads[t].at = "get"
    /\ queue.items # <<>>
    /\ threads' = [threads EXCEPT ![t] = [at |-> "set_vendor",
                                          device |-> Head(queue.items)]]
    /\ UNCHANGED <<tracker_vars, pc, devices, queue, unfinished_tasks, lookups,
                   failed>>

\* VendorLookupThread.run: device = self.queue.get(), blocks while the
\* Queue is empty.
get(t) ==
    /\ threads[t].at = "get"
    /\ queue.items # <<>>
    /\ threads' = [threads EXCEPT ![t] = [at |-> "set_vendor",
                                          device |-> Head(queue.items)]]
    /\ queue' = [queue EXCEPT !.items = Tail(@)]
    /\ UNCHANGED <<tracker_vars, pc, devices, unfinished_tasks, lookups, failed>>

\* A set_vendor without its except clause: the error of a lookup ends the
\* thread, before task_done.
run_set_vendor_uncaught(t) ==
    /\ threads[t].at = "set_vendor"
    /\ \E found \in BOOLEAN :
           /\ devices' = IF found
                          THEN [devices EXCEPT ![threads[t].device] = set_vendor(@, TRUE)]
                          ELSE devices
           /\ failed' = IF found THEN failed
                         ELSE failed \cup {[device |-> threads[t].device, thread |-> t]}
           /\ threads' = [threads EXCEPT ![t].at =
                                        IF found THEN "task_done" ELSE "exited"]
    /\ lookups' = [lookups EXCEPT ![threads[t].device] = @ + 1]
    /\ UNCHANGED <<tracker_vars, pc, queue, unfinished_tasks>>

\* VendorLookupThread.run: device.set_vendor(self.session)
run_set_vendor(t) ==
    /\ threads[t].at = "set_vendor"
    /\ \E found \in BOOLEAN :
           /\ devices' = [devices EXCEPT ![threads[t].device] = set_vendor(@, found)]
           /\ failed' = IF found THEN failed
                         ELSE failed \cup {[device |-> threads[t].device, thread |-> t]}
    /\ lookups' = [lookups EXCEPT ![threads[t].device] = @ + 1]
    /\ threads' = [threads EXCEPT ![t].at = "task_done"]
    /\ UNCHANGED <<tracker_vars, pc, queue, unfinished_tasks>>

\* A run without its loop: the thread ends after its first device.
task_done_and_exit(t) ==
    /\ threads[t].at = "task_done"
    /\ unfinished_tasks' = unfinished_tasks - 1
    /\ threads' = [threads EXCEPT ![t] = [at |-> "exited", device |-> 0]]
    /\ UNCHANGED <<tracker_vars, pc, devices, queue, lookups, failed>>

\* VendorLookupThread.run: self.queue.task_done(), and the loop goes on.
task_done(t) ==
    /\ threads[t].at = "task_done"
    /\ unfinished_tasks' = unfinished_tasks - 1
    /\ threads' = [threads EXCEPT ![t] = [at |-> "get", device |-> 0]]
    /\ UNCHANGED <<tracker_vars, pc, devices, queue, lookups, failed>>

\* One step of the thread t.
run(t) == get(t) \/ run_set_vendor(t) \/ task_done(t)

-----------------------------------------------------------------------------
(* Specifications *)

Init ==
    /\ requests_file = <<>>
    /\ appended = <<>>
    /\ aliases_file = NoAliasFile
    /\ call = NoCall
    /\ pc = [at |-> "idle", workers |-> 0, put |-> 0]
    /\ devices = <<>>
    /\ queue = [maxsize |-> 0, items |-> <<>>]
    /\ unfinished_tasks = 0
    /\ threads = <<>>
    /\ lookups = <<>>
    /\ failed = {}

\* The log, as add_request writes it and as it may get damaged, and the
\* queries on it.
Next ==
    \/ add_request
    \/ corrupt_line
    \/ call_get_devices
    \/ call_get_device
    \/ call_get_stations
    \/ call_get_station
    \/ return_to_caller

Spec == Init /\ [][Next]_vars

\* A log of valid lines, in any order of their capture_dts, that is long
\* enough for a chunk of two requests, and the queries.
NextScan ==
    \/ add_request_scan
    \/ call_get_devices
    \/ call_get_device
    \/ call_get_stations
    \/ call_get_station
    \/ return_to_caller

SpecScan == Init /\ [][NextScan]_vars

\* The log with lines whose capture_dts cannot be parsed, and the queries.
NextUnparsed ==
    \/ add_request
    \/ unparsed_dts_line
    \/ call_get_devices
    \/ call_get_device
    \/ call_get_stations
    \/ call_get_station
    \/ return_to_caller

SpecUnparsed == Init /\ [][NextUnparsed]_vars

\* The calls on a Device and on a Station.
NextObjects ==
    \/ new_Device
    \/ call_add_ssid
    \/ call_set_alias
    \/ new_Station
    \/ call_add_device

SpecObjects == Init /\ [][NextObjects]_vars

\* The alias store and the calls on it.
NextAliases ==
    \/ create_aliases_file
    \/ call_get_aliases
    \/ call_set_device_alias
    \/ return_to_caller

SpecAliases == Init /\ [][NextAliases]_vars

\* One call of set_vendors.
NextVendors ==
    \/ call_set_vendors
    \/ start_thread
    \/ put
    \/ join
    \/ close
    \/ \E t \in 1..Len(threads) : run(t)

SpecVendors == Init /\ [][NextVendors]_vars

\* The scheduler lets every thread that can take a step take one: the
\* calling thread and each started worker.
FairVendors ==
    /\ WF_vars(call_set_vendors \/ start_thread \/ put \/ join \/ close)
    /\ \A t \in 1..MaxWorkers : WF_vars(t \in 1..Len(threads) /\ run(t))

FairSpecVendors == SpecVendors /\ FairVendors

-----------------------------------------------------------------------------
(* What the claims speak of, stated on the history of the log *)

\* The requests appended with add_request, in order.
Requests ==
    LET valid == SelectSeq(appended, LAMBDA e : e.valid)
    IN  [i \in 1..Len(valid) |-> valid[i].request]

\* Every line of the log was written by add_request, and there is one.
OnlyAppended ==
    appended # <<>> /\ \A i \in 1..Len(appended) : appended[i].valid

\* s without the later occurrences of its elements.
RECURSIVE Dedup(_)
Dedup(s) ==
    IF s = <<>> THEN <<>>
    ELSE LET front == Dedup(SubSeq(s, 1, Len(s) - 1))
         IN  IF InSeq(s[Len(s)], front) THEN front ELSE Append(front, s[Len(s)])

Maximum(S) == CHOOSE x \in S : \A y \in S : y <= x

Project(rs, f(_)) == [i \in 1..Len(rs) |-> f(rs[i])]

\* The cutoff a call is made with: its load_dts, or the time of the call.
CutoffOf(c) == IF c.args.load_dts = NoneInt THEN Now ELSE c.args.load_dts

Queries == {"get_devices", "get_device", "get_stations", "get_station"}

\* The non-empty SSIDs that the requests rs of one device probe for.
ProbedSsids(rs) ==
    Dedup(Project(SelectSeq(rs, LAMBDA r : r.target_ssid # None /\ r.target_ssid # <<>>),
                  LAMBDA r : r.target_ssid))

\* C1: after any sequence of add_request, get_devices with the default
\* cutoff returns a mapping whose keys are the distinct source_mac values
\* appended, each Device with last_seen_dts the maximum capture_dts of its
\* MAC and known_ssids the non-empty target_ssid values of its MAC, without
\* duplicates, in order of first appearance.
C1_GetDevicesRecoversLog ==
    (call.op = "get_devices" /\ call.args.load_dts = NoneInt /\ OnlyAppended) =>
        /\ call.raised = "None"
        /\ DOMAIN call.value = {Requests[i].source_mac : i \in 1..Len(Requests)}
        /\ \A mac \in DOMAIN call.value :
               LET mine == SelectSeq(Requests, LAMBDA r : r.source_mac = mac)
               IN  /\ call.value[mac].last_seen_dts =
                          Maximum({mine[i].capture_dts : i \in 1..Len(mine)})
                   /\ call.value[mac].known_ssids = ProbedSsids(mine)

\* C2: get_device(mac, cutoff) returns last_seen_dts equal to the
\* capture_dts of the last record of that MAC, in file order, among those
\* with capture_dts <= cutoff (a capture_dts equal to the cutoff included).
C2_GetDeviceLastUpToCutoff ==
    (call.op = "get_device" /\ call.raised = "None") =>
        LET considered ==
                SelectSeq(Requests,
                          LAMBDA r : /\ r.source_mac = call.args.device_mac
                                     /\ r.capture_dts <= CutoffOf(call))
        IN  considered # <<>> =>
                call.value.last_seen_dts = considered[Len(considered)].capture_dts

\* The spelling under which the log gives back an SSID written to it.
Spelled(ssid) ==
    load_request(json_compact(ProbeRequest("m1", 1, ssid, NoneInt))).target_ssid

\* C3: after any sequence of add_request, get_stations with the default
\* cutoff returns one Station per distinct non-empty target_ssid of the log
\* (none for a null or empty one), and the associated_devices of the
\* Station of an SSID are the source_mac values that probed for it, without
\* duplicates, in order of first appearance.
C3_GetStationsRecoversLog ==
    (call.op = "get_stations" /\ call.args.load_dts = NoneInt /\ OnlyAppended) =>
        LET probed == {Requests[i].target_ssid : i \in 1..Len(Requests)}
                          \ {None, <<>>}
        IN  /\ call.raised = "None"
            /\ Cardinality(DOMAIN call.value) = Cardinality(probed)
            /\ \A ssid \in probed :
                   /\ Spelled(ssid) \in DOMAIN call.value
                   /\ call.value[Spelled(ssid)].associated_devices =
                          Dedup(Project(SelectSeq(Requests,
                                                  LAMBDA r : r.target_ssid = ssid),
                                        LAMBDA r : r.source_mac))

\* get_stations returned a Station of a non-ASCII SSID that two devices
\* probed for, from a log that add_request wrote.
C3_Witness ==
    /\ call.op = "get_stations" /\ call.args.load_dts = NoneInt /\ OnlyAppended
    /\ call.raised = "None"
    /\ Spelled(<<Eacute>>) \in DOMAIN call.value
    /\ Len(call.value[Spelled(<<Eacute>>)].associated_devices) = 2

\* The query of call c made on another file.
QueryOn(file, c) ==
    CASE c.op = "get_devices" -> get_devices(file, c.args.load_dts, c.args.aliases)
      [] c.op = "get_device" -> get_device(file, c.args.device_mac, c.args.load_dts, None)
      [] c.op = "get_stations" -> get_stations(file, c.args.load_dts)
      [] c.op = "get_station" -> get_station(file, c.args.ssid, c.args.load_dts)

\* C4: on a log with undecodable lines among valid lines, every query
\* returns, and returns what it returns on the log without those lines.
C4_CorruptLinesDiscardOnlyThemselves ==
    (/\ call.op \in Queries
     /\ \E i \in 1..Len(appended) : appended[i].valid
     /\ \E i \in 1..Len(appended) : ~appended[i].valid) =>
        LET clean == SelectSeq(requests_file, LAMBDA l : l.kind # "corrupt")
        IN  /\ call.raised = "None"
            /\ call.value = QueryOn(clean, call).value

\* The chunks of the log: chunk j holds lines (j-1)*chunk_size+1 to
\* j*chunk_size of the file, and line i > 1 of the file is appended[i-1].
NumChunks == (Len(requests_file) + chunk_size - 1) \div chunk_size

ChunkRequests(j) ==
    LET first == IF j = 1 THEN 1 ELSE (j - 1) * chunk_size
        last == Min(Len(appended), j * chunk_size - 1)
        valid == SelectSeq(SubSeq(appended, first, last), LAMBDA e : e.valid)
    IN  [i \in 1..Len(valid) |-> valid[i].request]

\* The first decoded record of chunk j is later than the cutoff.
Late(j, cutoff) ==
    ChunkRequests(j) # <<>> /\ ChunkRequests(j)[1].capture_dts > cutoff

\* The number of the first late chunk, NumChunks + 1 when there is none.
FirstLate(cutoff) ==
    IF \E j \in 1..NumChunks : Late(j, cutoff)
    THEN CHOOSE j \in 1..NumChunks :
             Late(j, cutoff) /\ \A i \in 1..(j - 1) : ~Late(i, cutoff)
    ELSE NumChunks + 1

\* The chunks yielded are the first chunks of the file, in order.
YieldedInFileOrder ==
    \A j \in 1..Len(call.yielded) :
        \A n \in 1..Len(call.yielded[j]) :
            \E i \in 1..Len(ChunkRequests(j)) :
                /\ ChunkRequests(j)[i].source_mac = call.yielded[j][n].source_mac
                /\ ChunkRequests(j)[i].capture_dts = call.yielded[j][n].capture_dts

\* C5: the reader yields the chunks in file order up to the first chunk
\* whose first decoded record is later than the cutoff: every chunk before
\* that one is yielded, that one and the later ones are not.
C5_ReaderStopsAtFirstLateChunk ==
    (call.op \in Queries /\ \E j \in 1..NumChunks : Late(j, CutoffOf(call))) =>
        /\ Len(call.yielded) = FirstLate(CutoffOf(call)) - 1
        /\ YieldedInFileOrder

\* C6: a chunk without a decodable record does not fail the scan: the
\* query returns, and the chunks after it are scanned as usual.
C6_EmptyChunkDoesNotFailScan ==
    (/\ call.op \in Queries
     /\ \E j \in 1..NumChunks : ChunkRequests(j) = <<>>) =>
        /\ call.raised = "None"
        /\ Len(call.yielded) = FirstLate(CutoffOf(call)) - 1

-----------------------------------------------------------------------------
(* The alias store *)

\* The aliases that get_aliases reads from a file that exists.
AliasesIn(file) == get_aliases(file).value

\* C7: set_device_alias(mac, alias, force=False) on a MAC that has an entry
\* in the alias store raises, and leaves the store as it was.
C7_SetAliasWithoutForceFails ==
    (/\ call.op = "set_device_alias"
     /\ ~call.args.force
     /\ call.args.device_mac \in DOMAIN AliasesIn(call.before)) =>
        /\ call.raised = "ValueError"
        /\ aliases_file = call.before

\* set_device_alias without force raised on a MAC that had an alias, in a
\* store of two entries.
C7_Witness ==
    /\ call.op = "set_device_alias"
    /\ ~call.args.force
    /\ call.args.device_mac \in DOMAIN AliasesIn(call.before)
    /\ Len(call.before.rows) = 2
    /\ call.raised = "ValueError"

\* C8: a set_device_alias on an existing store that finds the MAC without
\* an alias, or is forced, succeeds; the next get_aliases then maps the MAC
\* to the new alias and every other MAC to the alias it had, and the store
\* holds one entry per MAC.
C8_SetAliasUpdatesOneEntry ==
    (/\ call.op = "set_device_alias"
     /\ call.before.exists
     /\ call.args.force \/ call.args.device_mac \notin DOMAIN AliasesIn(call.before)) =>
        LET old == AliasesIn(call.before)
            new == AliasesIn(aliases_file)
        IN  /\ call.raised = "None"
            /\ get_aliases(aliases_file).raised = "None"
            /\ DOMAIN new = DOMAIN old \cup {call.args.device_mac}
            /\ new[call.args.device_mac] = call.args.alias
            /\ \A m \in DOMAIN old \ {call.args.device_mac} : new[m] = old[m]
            /\ Len(aliases_file.rows) = Cardinality(DOMAIN new)

\* A forced set_device_alias replaced the alias of a MAC, beside another
\* MAC whose alias holds the delimiter.
C8_Witness ==
    /\ call.op = "set_device_alias"
    /\ call.raised = "None"
    /\ call.args.force
    /\ call.args.device_mac \in DOMAIN AliasesIn(call.before)
    /\ AliasesIn(call.before)[call.args.device_mac] # call.args.alias
    /\ \E m \in DOMAIN AliasesIn(aliases_file) :
           m # call.args.device_mac /\ AliasesIn(aliases_file)[m] = <<"x", ";", "y">>

-----------------------------------------------------------------------------
(* set_vendors *)

\* C9: when set_vendors returns, every device was put, taken by a worker
\* and looked up, and no device is in the Queue or with a worker.
C9_ReturnsAfterEveryLookup ==
    pc.at \in {"close", "returned"} =>
        /\ pc.put = Len(devices)
        /\ queue.items = <<>>
        /\ \A t \in 1..Len(threads) : threads[t].at = "get"
        /\ \A d \in 1..Len(devices) : lookups[d] >= 1

\* set_vendors returned from a call with more devices than workers.
C9_Witness ==
    /\ pc.at = "returned"
    /\ Len(devices) > pc.workers
    /\ pc.workers > 1

\* C10: under fair scheduling of the threads, a call of set_vendors
\* returns, with any number of devices and one worker or more.
C10_SetVendorsReturns == (pc.at # "idle") ~> (pc.at = "returned")

\* set_vendors returned from a call with more devices than workers in
\* which every lookup failed.
C10_Witness ==
    /\ pc.at = "returned"
    /\ Len(devices) > pc.workers
    /\ \A d \in 1..Len(devices) :
           lookups[d] = 1 /\ devices[d].vendor_company = "None"

\* C11: a lookup that fails is contained.  The device it failed for has
\* vendor_company and vendor_country None, no thread is ended by it (the
\* worker goes on to task_done and to the next get, the calling thread to
\* its return), and when set_vendors returns every device of the batch was
\* looked up.
C11_FailedLookupIsContained ==
    /\ \A f \in failed :
           /\ devices[f.device].vendor_company = "None"
           /\ devices[f.device].vendor_country = "None"
           /\ threads[f.thread].at \in {"get", "set_vendor", "task_done"}
    /\ (pc.at = "returned" /\ failed # {}) =>
           \A d \in 1..Len(devices) : lookups[d] >= 1

\* The worker whose lookup failed for one device has since taken another
\* device and found its vendor.
C11_Witness ==
    \E f \in failed :
        /\ threads[f.thread].at = "task_done"
        /\ threads[f.thread].device # f.device
        /\ devices[threads[f.thread].device].vendor_company = "company"
        /\ devices[f.device].vendor_company = "None"

-----------------------------------------------------------------------------
(* Records without a timestamp *)

\* C12: on a log of decodable lines, some with a capture_dts that cannot
\* be parsed, the scan does not fail: every query returns, the record is
\* in the chunk that the reader yields and its source_mac and target_ssid
\* are in the results of get_devices and get_stations, and the record does
\* not stop the scan (with the default cutoff every chunk is yielded).
C12_UnparsedTimestampIsContained ==
    (/\ call.op \in Queries
     /\ OnlyAppended
     /\ \E i \in 1..Len(Requests) : Requests[i].capture_dts = NoneInt) =>
        /\ call.raised = "None"
        /\ call.args.load_dts = NoneInt =>
               /\ Len(call.yielded) = NumChunks
               /\ call.op = "get_devices" =>
                      \A i \in 1..Len(Requests) :
                          Requests[i].source_mac \in DOMAIN call.value
               /\ call.op = "get_stations" =>
                      \A i \in 1..Len(Requests) :
                          Truthy(Requests[i].target_ssid) =>
                              Spelled(Requests[i].target_ssid) \in DOMAIN call.value

-----------------------------------------------------------------------------
(* Device and Station *)

NoDuplicates(s) == \A i, j \in 1..Len(s) : i # j => s[i] # s[j]

\* C13: after any sequence of add_ssid calls on a Device, and of add_device
\* calls on a Station, known_ssids and associated_devices hold no entry
\* twice and no empty or null entry, and an add of a value that the list
\* holds leaves the list as it was.
C13_ListsHoldDistinctNonEmptyEntries ==
    /\ call.op \in DeviceOps =>
           /\ NoDuplicates(call.object.known_ssids)
           /\ \A i \in 1..Len(call.object.known_ssids) :
                  Truthy(call.object.known_ssids[i])
           /\ (call.op = "add_ssid" /\ InSeq(call.arg, call.before.known_ssids)) =>
                  call.object.known_ssids = call.before.known_ssids
    /\ call.op \in StationOps =>
           /\ NoDuplicates(call.object.associated_devices)
           /\ \A i \in 1..Len(call.object.associated_devices) :
                  TruthyStr(call.object.associated_devices[i])
           /\ (call.op = "add_device"
                   /\ InSeq(call.arg, call.before.associated_devices)) =>
                  call.object.associated_devices = call.before.associated_devices

\* The first SSID of a Device that knows two was added again, as the last
\* of the calls, and the list is as it was.
C13_Witness ==
    /\ call.op = "add_ssid"
    /\ call.calls = MaxCalls
    /\ Len(call.before.known_ssids) = 2
    /\ call.arg = call.before.known_ssids[1]
    /\ call.object.known_ssids = call.before.known_ssids

\* The alias a Device has before any call of set_alias, followed by the
\* aliases set_alias was called with.
AliasesGiven == <<call.constructed>> \o call.assigned

\* C14 as stated: in any sequence of set_alias calls on a Device, the alias
\* is the one of the first call, whatever its value, or the one that the
\* Device was constructed with.
C14_FirstAliasWins ==
    call.op \in DeviceOps /\ call.assigned # <<>> =>
        call.object.alias = IF Truthy(call.constructed) THEN call.constructed
                            ELSE call.assigned[1]

\* C14, amended: the alias of a Device is the first non-empty alias among
\* the one it was constructed with and those of the set_alias calls, and a
\* set_alias on a Device that has a non-empty alias changes nothing; while
\* no non-empty alias was given, the alias is the one of the last call.
C14_FirstNonEmptyAliasWins ==
    call.op \in DeviceOps /\ call.assigned # <<>> =>
        LET nonempty == SelectSeq(AliasesGiven, Truthy)
        IN  /\ call.object.alias = IF nonempty # <<>> THEN nonempty[1]
                                   ELSE AliasesGiven[Len(AliasesGiven)]
            /\ (call.op = "set_alias" /\ Truthy(call.before.alias)) =>
                   call.object = call.before

\* set_alias was called with a second non-empty alias, after a call with
\* an empty one, and the Device has the first non-empty one.
C14_Witness ==
    /\ call.op = "set_alias"
    /\ Len(call.assigned) = 3
    /\ ~Truthy(call.constructed) /\ ~Truthy(call.assigned[1])
    /\ Truthy(call.assigned[2]) /\ Truthy(call.assigned[3])
    /\ call.assigned[2] # call.assigned[3]
    /\ call.object.alias = call.assigned[2]

-----------------------------------------------------------------------------
(* The codec and the log *)

\* C15: decoding the line that add_request wrote for a request r gives a
\* request equal to r in source_mac, capture_dts, target_ssid and
\* signal_strength, whatever the SSID of r (null, empty, ASCII or not).
C15_DecodeInvertsEncode ==
    \A i \in 1..Len(appended) :
        appended[i].valid =>
            LET decoded == load_requests(<<requests_file[i + 1]>>)
                r == appended[i].request
            IN  /\ decoded.raised = "None"
                /\ decoded.requests[1].source_mac = r.source_mac
                /\ decoded.requests[1].capture_dts = r.capture_dts
                /\ decoded.requests[1].signal_strength = r.signal_strength
                /\ decoded.requests[1].target_ssid = r.target_ssid

\* The requests read back from a file, line by line.
ReadBack(file) == decode_line_by_line(SelectSeq(file, LongerThanOne))

\* C16: a step of add_request leaves the lines of the log as they were and
\* adds one line at the end, the serialized request; the file starts with
\* its one blank line; and the requests read back are those read back
\* before, in their order, followed by the new one.
C16_AddRequestAppendsOneLine ==
    [][(Len(appended') = Len(appended) + 1 /\ appended'[Len(appended')].valid) =>
          LET request == appended'[Len(appended')].request
              last == ReadBack(requests_file')[Len(ReadBack(requests_file'))]
          IN  /\ requests_file'[1] = BlankLine
              /\ Len(requests_file') = Len(appended') + 1
              /\ \A i \in 1..Len(requests_file) :
                     requests_file'[i] = requests_file[i]
              /\ \A i \in 2..Len(requests_file') :
                     LongerThanOne(requests_file'[i])
              /\ requests_file'[Len(requests_file')] = json_compact(request)
              /\ ReadBack(requests_file') =
                     ReadBack(requests_file) \o <<last>>
              /\ last.source_mac = request.source_mac
              /\ last.capture_dts = request.capture_dts
              /\ last.signal_strength = request.signal_strength
      ]_vars

\* The log holds the blank line and two requests, the second one added to
\* a file that held the first.
C16_Witness ==
    /\ Len(requests_file) = 3
    /\ OnlyAppended
    /\ ReadBack(requests_file)[1].source_mac # ReadBack(requests_file)[2].source_mac

-----------------------------------------------------------------------------
(* set_vendors: one lookup per device *)

\* In how many places the device d is: in the Queue, and with a worker.
Holders(d) ==
    Cardinality({i \in 1..Len(queue.items) : queue.items[i] = d})
        + Cardinality({t \in 1..Len(threads) : threads[t].device = d})

\* C17: in a call of set_vendors no device is in the Queue twice or with
\* two workers, no device is looked up twice, also when its lookup failed,
\* and when the call returns every device was looked up once.
C17_OneLookupPerDevice ==
    /\ \A d \in 1..Len(devices) :
           /\ Holders(d) <= 1
           /\ lookups[d] <= 1
           /\ (lookups[d] = 1 /\ Holders(d) = 1) =>
                  \E t \in 1..Len(threads) :
                      threads[t].device = d /\ threads[t].at = "task_done"
    /\ \A f \in failed : lookups[f.device] = 1
    /\ pc.at = "returned" => \A d \in 1..Len(devices) : lookups[d] = 1

\* set_vendors returned from a call with as many devices as the bound
\* allows and two workers, in which a lookup failed and another did not.
C17_Witness ==
    /\ pc.at = "returned"
    /\ Len(devices) = MaxDevices
    /\ Len(threads) > 1
    /\ \E d \in 1..Len(devices) : devices[d].vendor_company = "company"
    /\ \E f \in failed : lookups[f.device] = 1

-----------------------------------------------------------------------------
(* The reader: its log, its cutoff *)

\* The chunks that the reader read in the call: those it yielded, and the
\* one at which it stopped, if it stopped.
ChunksRead == Min(NumChunks, Len(call.yielded) + 1)

\* The positions in the file, from 1, of the lines of the chunks read that
\* do not decode.
UndecodableLines ==
    SelectSeq([p \in 1..Min(Len(requests_file), ChunksRead * chunk_size) |-> p],
              LAMBDA p : requests_file[p] = CorruptLine)

\* C18: the line numbers logged for the undecodable lines are the
\* positions of these lines in the file: chunk_size times the number of
\* chunks read before the chunk of the line, plus the index of the line
\* among the lines of its chunk, the blank ones counted.
C18_LoggedLineNumberIsFilePosition ==
    call.op \in Queries => call.logged = UndecodableLines

\* The requests of the log captured before the cutoff of the call, as the
\* log gives them back.
Early ==
    Project(SelectSeq(Requests, LAMBDA r : r.capture_dts < CutoffOf(call)),
            LAMBDA r : [r EXCEPT !.target_ssid = Spelled(r.target_ssid)])

\* A request captured before the cutoff has the MAC and the SSID.
ProbedEarly(mac, ssid) ==
    \E i \in 1..Len(Early) :
        Early[i].source_mac = mac /\ Early[i].target_ssid = ssid

SeenEarly(mac) == \E i \in 1..Len(Early) : Early[i].source_mac = mac

\* C19: in any order of the records of the log, every record of every
\* chunk yielded is captured before the cutoff, and the result of a query
\* holds nothing that only a record captured at the cutoff or later gives:
\* no device, no last_seen_dts, no SSID of a device, no station, no device
\* of a station.
C19_NoLateRecordContributes ==
    (call.op \in Queries /\ call.raised = "None") =>
        /\ \A j \in 1..Len(call.yielded) :
               \A n \in 1..Len(call.yielded[j]) :
                   call.yielded[j][n].capture_dts < CutoffOf(call)
        /\ call.op = "get_devices" =>
               \A mac \in DOMAIN call.value :
                   LET device == call.value[mac]
                   IN  /\ SeenEarly(mac)
                       /\ device.last_seen_dts < CutoffOf(call)
                       /\ \A i \in 1..Len(device.known_ssids) :
                              ProbedEarly(mac, device.known_ssids[i])
        /\ call.op = "get_device" =>
               /\ call.value.last_seen_dts < CutoffOf(call)
               /\ call.value.last_seen_dts # NoneInt =>
                      SeenEarly(call.args.device_mac)
               /\ \A i \in 1..Len(call.value.known_ssids) :
                      ProbedEarly(call.args.device_mac, call.value.known_ssids[i])
        /\ call.op = "get_stations" =>
               \A ssid \in DOMAIN call.value :
                   /\ call.value[ssid].associated_devices # <<>>
                   /\ \A i \in 1..Len(call.value[ssid].associated_devices) :
                          ProbedEarly(call.value[ssid].associated_devices[i], ssid)
        /\ call.op = "get_station" =>
               \A i \in 1..Len(call.value.associated_devices) :
                   ProbedEarly(call.value.associated_devices[i], call.args.ssid)

\* get_devices returned a device from a log that is not sorted: the first
\* request is captured at the cutoff and is dropped from the first chunk,
\* the second chunk holds an earlier request, which is yielded, and a
\* request at the cutoff, which is not.
C19_Witness ==
    /\ call.op = "get_devices" /\ call.raised = "None"
    /\ Len(Requests) = 3
    /\ Requests[1].capture_dts = CutoffOf(call)
    /\ Requests[2].capture_dts < CutoffOf(call)
    /\ Requests[3].capture_dts = CutoffOf(call)
    /\ Len(call.yielded) = 2
    /\ call.yielded[1] = <<>>
    /\ Len(call.yielded[2]) = 1
    /\ DOMAIN call.value = {Requests[2].source_mac}

-----------------------------------------------------------------------------
(* get_device and get_devices *)

\* The log is sorted by capture_dts, equal ones allowed.
Sorted ==
    \A i, j \in 1..Len(Requests) :
        i < j => Requests[i].capture_dts <= Requests[j].capture_dts

\* C20: on a log of valid records and for every cutoff, get_device gives
\* for every MAC that get_devices returns the known_ssids that get_devices
\* gives it, and the same last_seen_dts when the log is sorted; for a MAC
\* that get_devices does not return, get_device gives a Device without
\* last_seen_dts and without SSIDs.
C20_GetDeviceAgreesWithGetDevices ==
    (call.op = "get_devices" /\ OnlyAppended) =>
        /\ call.raised = "None"
        /\ \A mac \in Macs :
               LET one == get_device(requests_file, mac, call.args.load_dts, None)
               IN  /\ one.raised = "None"
                   /\ mac \in DOMAIN call.value =>
                          /\ one.value.known_ssids = call.value[mac].known_ssids
                          /\ Sorted => one.value.last_seen_dts =
                                           call.value[mac].last_seen_dts
                   /\ mac \notin DOMAIN call.value =>
                          /\ one.value.last_seen_dts = NoneInt
                          /\ one.value.known_ssids = <<>>

\* get_devices returned one device from a sorted log of three requests,
\* the two of the second chunk captured at different times with different
\* SSIDs by that device; the other MAC is not in the log.
C20_Witness ==
    /\ call.op = "get_devices" /\ call.raised = "None"
    /\ Sorted
    /\ Len(Requests) = 3
    /\ Requests[2].capture_dts < Requests[3].capture_dts
    /\ DOMAIN call.value = {"m1"}
    /\ call.value["m1"].last_seen_dts = Requests[3].capture_dts
    /\ Len(call.value["m1"].known_ssids) = 2

=============================================================================
